---------------------------- MODULE Spec2Model ----------------------------
(***************************************************************************)
(* Model of the contact-form logic of script.js: the field validator, the  *)
(* whole-form validation, the submission flow around emailjs.send, the     *)
(* contact modal and the message store kept in localStorage.               *)
(*                                                                         *)
(* A JavaScript string is a sequence of one-character strings, so that     *)
(* trim(), .length and the email regular expression are computed on the    *)
(* characters.                                                             *)
(***************************************************************************)
EXTENDS Integers, Sequences, FiniteSets, TLC

(***************************************************************************)
(* Bounds of the model.                                                    *)
(***************************************************************************)
\* longest run of whitespace put in front of / behind a generated value
MaxPad == 1
\* longest generated string over EmailAlphabet
MaxEmailLen == 5
\* the clock stops at MaxClock
MaxClock == 1
\* most records the store is let to grow to, those of the sends not yet
\* resolved counted in
MaxStored == 2

\* number of experience cards and of timeline nav items
NumTimelineItems == 3

\* entries in one notification of the IntersectionObserver
MaxEntries == 2

(***************************************************************************)
(* Strings.                                                                *)
(***************************************************************************)
\* the string of n copies of the character c
Rep(c, n) == [i \in 1..n |-> c]

\* characters String.prototype.trim strips and the regex class \s matches
IsSpace(c) == c \in {" ", "\t", "\n"}

\* String.prototype.trim: the value without leading and trailing whitespace
trim(s) ==
    IF \A i \in 1..Len(s) : IsSpace(s[i])
    THEN <<>>
    ELSE LET a == CHOOSE i \in 1..Len(s) :
                     ~IsSpace(s[i]) /\ \A j \in 1..(i-1) : IsSpace(s[j])
             b == CHOOSE i \in 1..Len(s) :
                     ~IsSpace(s[i]) /\ \A j \in (i+1)..Len(s) : IsSpace(s[j])
         IN  SubSeq(s, a, b)

(***************************************************************************)
(* The email pattern /^[^\s@]+@[^\s@]+\.[^\s@]+$/ as the sequence of its   *)
(* five tokens; a token is a character class and whether it carries "+".   *)
(***************************************************************************)
\* the pattern without its "\.[^\s@]+" part
emailPattern_NoDot ==
    << [cls |-> "notSpaceAt", plus |-> TRUE],
       [cls |-> "at",         plus |-> FALSE],
       [cls |-> "notSpaceAt", plus |-> TRUE] >>

emailPattern ==
    << [cls |-> "notSpaceAt", plus |-> TRUE],
       [cls |-> "at",         plus |-> FALSE],
       [cls |-> "notSpaceAt", plus |-> TRUE],
       [cls |-> "dot",        plus |-> FALSE],
       [cls |-> "notSpaceAt", plus |-> TRUE] >>

\* does character c belong to the class of a token
InClass(c, cls) ==
    CASE cls = "notSpaceAt" -> ~IsSpace(c) /\ c # "@"
      [] cls = "at"         -> c = "@"
      [] cls = "dot"        -> c = "."

\* One character of input. A matcher state k says: tokens 1..k are matched
\* (and token k, if it carries "+", may take more characters).
RegexStep(pat, S, c) ==
    { k : k \in
        { j + 1 : j \in { j \in S : j < Len(pat) /\ InClass(c, pat[j+1].cls) } }
        \cup { j \in S : j >= 1 /\ pat[j].plus /\ InClass(c, pat[j].cls) } }

\* the matcher states after reading s[lo..hi] from the states S (none are
\* left once the first half has left none)
RECURSIVE RegexRun(_, _, _, _, _)
RegexRun(pat, S, s, lo, hi) ==
    IF lo > hi THEN S
    ELSE IF lo = hi THEN RegexStep(pat, S, s[lo])
    ELSE LET mid == (lo + hi) \div 2
             left == RegexRun(pat, S, s, lo, mid)
         IN  IF left = {} THEN {} ELSE RegexRun(pat, left, s, mid + 1, hi)

\* RegExp.prototype.test for a pattern anchored with ^ and $
RegexTest(pat, s) == Len(pat) \in RegexRun(pat, {0}, s, 1, Len(s))

(***************************************************************************)
(* The rule table.                                                         *)
(***************************************************************************)
fields == << "senderName", "senderEmail", "subject", "message" >>
FieldIds == { fields[i] : i \in 1..Len(fields) }

validationRules ==
    [ senderName |->
        [ required |-> TRUE, minLength |-> 2, maxLength |-> 100,
          errorMessages |->
            [ required  |-> "Please enter your name",
              minLength |-> "Name must be at least 2 characters",
              maxLength |-> "Name must be less than 100 characters" ] ],
      senderEmail |->
        [ required |-> TRUE, pattern |-> emailPattern,
          errorMessages |->
            [ required |-> "Please enter your email address",
              pattern  |-> "Please enter a valid email address (e.g., name@example.com)" ] ],
      subject |->
        [ required |-> TRUE, minLength |-> 3, maxLength |-> 200,
          errorMessages |->
            [ required  |-> "Please enter a subject",
              minLength |-> "Subject must be at least 3 characters",
              maxLength |-> "Subject must be less than 200 characters" ] ],
      message |->
        [ required |-> TRUE, minLength |-> 10, maxLength |-> 5000,
          errorMessages |->
            [ required  |-> "Please enter your message",
              minLength |-> "Message must be at least 10 characters",
              maxLength |-> "Message must be less than 5000 characters" ] ] ]

\* rules.required is truthy: the key is present and true
TruthyFlag(rules, key) == key \in DOMAIN rules /\ rules[key] = TRUE

\* rules.minLength / rules.maxLength is truthy: the key is present and not 0
TruthyNumber(rules, key) == key \in DOMAIN rules /\ rules[key] # 0

\* Rule: Required. The check on the value as typed, where the value trimmed
\* is meant, is the slip failsRequired_Untrimmed makes.
failsRequired_Untrimmed(rules, value, trimmedValue) ==
    TruthyFlag(rules, "required") /\ value = <<>>

failsRequired(rules, value, trimmedValue) ==
    TruthyFlag(rules, "required") /\ trimmedValue = <<>>

\* Rule: Minimum Length
failsMinLength(rules, trimmedValue) ==
    TruthyNumber(rules, "minLength") /\ Len(trimmedValue) < rules.minLength

\* Rule: Maximum Length. failsMaxLength_Exclusive reads the bound as the
\* error messages word it ("must be less than").
failsMaxLength_Exclusive(rules, trimmedValue) ==
    TruthyNumber(rules, "maxLength") /\ Len(trimmedValue) >= rules.maxLength

failsMaxLength(rules, trimmedValue) ==
    TruthyNumber(rules, "maxLength") /\ Len(trimmedValue) > rules.maxLength

\* Rule: Pattern (regex)
failsPattern(rules, trimmedValue) ==
    "pattern" \in DOMAIN rules /\ ~RegexTest(rules.pattern, trimmedValue)

\* validateField with the minimum length checked before the required rule
validateField_MinLengthFirst(fieldId, value) ==
    IF fieldId \notin DOMAIN validationRules
    THEN [isValid |-> TRUE, errorMessage |-> ""]
    ELSE
    LET rules == validationRules[fieldId]
        trimmedValue == trim(value)
    IN  IF failsMinLength(rules, trimmedValue)
        THEN [isValid |-> FALSE, errorMessage |-> rules.errorMessages.minLength]
        ELSE IF failsRequired(rules, value, trimmedValue)
        THEN [isValid |-> FALSE, errorMessage |-> rules.errorMessages.required]
        ELSE IF failsMaxLength(rules, trimmedValue)
        THEN [isValid |-> FALSE, errorMessage |-> rules.errorMessages.maxLength]
        ELSE IF failsPattern(rules, trimmedValue)
        THEN [isValid |-> FALSE, errorMessage |-> rules.errorMessages.pattern]
        ELSE [isValid |-> TRUE, errorMessage |-> ""]

\* validateField(fieldId, value) -> { isValid, errorMessage }
validateField(fieldId, value) ==
    IF fieldId \notin DOMAIN validationRules
    THEN [isValid |-> TRUE, errorMessage |-> ""]
    ELSE
    LET rules == validationRules[fieldId]
        trimmedValue == trim(value)
    IN  IF failsRequired(rules, value, trimmedValue)
        THEN [isValid |-> FALSE, errorMessage |-> rules.errorMessages.required]
        ELSE IF failsMinLength(rules, trimmedValue)
        THEN [isValid |-> FALSE, errorMessage |-> rules.errorMessages.minLength]
        ELSE IF failsMaxLength(rules, trimmedValue)
        THEN [isValid |-> FALSE, errorMessage |-> rules.errorMessages.maxLength]
        ELSE IF failsPattern(rules, trimmedValue)
        THEN [isValid |-> FALSE, errorMessage |-> rules.errorMessages.pattern]
        ELSE [isValid |-> TRUE, errorMessage |-> ""]

(***************************************************************************)
(* State.                                                                  *)
(***************************************************************************)
VARIABLES
    modalActive,    \* #contactModal carries the class 'active'
    bodyOverflow,   \* document.body.style.overflow
    value,          \* value[f]: the current value of input f
    classList,      \* classList[f]: which of 'error', 'valid' input f carries
    spanText,       \* spanText[f]: textContent of the .error-message span of f
    spanVisible,    \* spanVisible[f]: that span carries the class 'visible'
    clearTimers,    \* fields with a pending 200 ms timer of clearFieldError
    focused,        \* document.activeElement: a field, or "other"
    formStatus,     \* #formStatus: [className, textContent]
    submitBtn,      \* #submitBtn: [disabled, textContent]
    sending,        \* the formData of every emailjs.send not yet resolved
    sendPromise,    \* the promise of the latest emailjs.send: "none" before
                    \* the first, then "pending", "fulfilled" or "rejected"
    closeTimers,    \* number of pending 2500 ms timers of the success handler
    contactMessages,\* localStorage item 'contactMessages'
    now,            \* the latest reading of the clock taken by Date.now()
    messagesModalActive, \* #messagesModal carries the class 'active'
    rendered,       \* what renderMessagesList last wrote into that modal
    themeItem,      \* localStorage item 'theme': "absent", "dark" or "light"
    darkMode,       \* document.body carries the class 'dark-mode'
    prefersDark,    \* matchMedia('(prefers-color-scheme: dark)').matches
    themeLoaded,    \* initializeTheme() has run
    navActive,      \* data-index of the .timeline-nav-item elements that
                    \* carry the class 'active'
    currentActiveIndex, \* the variable of that name of initExperienceTimeline
    lastEntered,    \* data-index of the card of the latest entry with
                    \* isIntersecting, -1 before the first (history)
    vpc, vField, vValue, vResult   \* the validator applied on its own

vars == << modalActive, bodyOverflow, value, classList, spanText, spanVisible,
           clearTimers, focused, formStatus, submitBtn, sending, sendPromise,
           closeTimers, contactMessages, now, messagesModalActive, rendered,
           themeItem, darkMode, prefersDark, themeLoaded,
           navActive, currentActiveIndex, lastEntered,
           vpc, vField, vValue, vResult >>

formVars == << modalActive, bodyOverflow, value, classList, spanText,
               spanVisible, clearTimers, focused, formStatus, submitBtn,
               sending, sendPromise, closeTimers, contactMessages, now >>

validatorVars == << vpc, vField, vValue, vResult >>

messagesVars == << messagesModalActive, rendered >>

themeVars == << themeItem, darkMode, prefersDark, themeLoaded >>

timelineVars == << navActive, currentActiveIndex, lastEntered >>

(***************************************************************************)
(* Field indicators: showFieldError, clearFieldError. The indicators of    *)
(* the four inputs are passed as one record d.                             *)
(***************************************************************************)
Indicators ==
    [ classList |-> classList, spanText |-> spanText,
      spanVisible |-> spanVisible, clearTimers |-> clearTimers ]

showFieldError(d, input, message) ==
    [ d EXCEPT !.classList[input] = (@ \cup {"error"}) \ {"valid"},
               !.spanText[input] = message,
               !.spanVisible[input] = TRUE ]

clearFieldError(d, input, showValid) ==
    [ d EXCEPT !.classList[input] =
                   IF showValid THEN (@ \ {"error"}) \cup {"valid"}
                                ELSE @ \ {"error", "valid"},
               !.spanVisible[input] = FALSE,
               !.clearTimers = @ \cup {input} ]

\* the 200 ms callback of clearFieldError
clearTextCallback(d, input) ==
    IF ~d.spanVisible[input]
    THEN [ d EXCEPT !.spanText[input] = "", !.clearTimers = @ \ {input} ]
    ELSE [ d EXCEPT !.clearTimers = @ \ {input} ]

\* the blur listener without its test for an empty value
blurListener_FlagsEmpty(d, fieldId, val) ==
    LET result == validateField(fieldId, val[fieldId])
    IN  IF ~result.isValid
        THEN showFieldError(d, fieldId, result.errorMessage)
        ELSE clearFieldError(d, fieldId, TRUE)

\* the blur listener of setupRealtimeValidation
blurListener(d, fieldId, val) ==
    LET result == validateField(fieldId, val[fieldId])
    IN  IF ~result.isValid /\ trim(val[fieldId]) # <<>>
        THEN showFieldError(d, fieldId, result.errorMessage)
        ELSE IF trim(val[fieldId]) # <<>>
        THEN clearFieldError(d, fieldId, TRUE)
        ELSE d

\* the input listener of setupRealtimeValidation
inputListener(d, fieldId, val) ==
    IF "error" \in d.classList[fieldId]
    THEN IF validateField(fieldId, val[fieldId]).isValid
         THEN clearFieldError(d, fieldId, TRUE)
         ELSE d
    ELSE d

(***************************************************************************)
(* validateForm: the forEach over the four fields, then the focus.         *)
(* The loop state is [isFormValid, firstInvalidField, d].                  *)
(***************************************************************************)
\* the loop body with isFormValid assigned the result of the field at hand
validateFormBody_LastWins(st, fieldId, val) ==
    LET result == validateField(fieldId, val[fieldId])
    IN  IF ~result.isValid
        THEN [ isFormValid |-> FALSE,
               firstInvalidField |->
                   IF st.firstInvalidField = "null" THEN fieldId
                   ELSE st.firstInvalidField,
               d |-> showFieldError(st.d, fieldId, result.errorMessage) ]
        ELSE [ st EXCEPT !.isFormValid = TRUE,
                         !.d = clearFieldError(st.d, fieldId, TRUE) ]

\* the loop body that leaves the fields after the first invalid one alone
validateFormBody_FailFast(st, fieldId, val) ==
    LET result == validateField(fieldId, val[fieldId])
    IN  IF ~st.isFormValid THEN st
        ELSE IF ~result.isValid
        THEN [ isFormValid |-> FALSE,
               firstInvalidField |-> fieldId,
               d |-> showFieldError(st.d, fieldId, result.errorMessage) ]
        ELSE [ st EXCEPT !.d = clearFieldError(st.d, fieldId, TRUE) ]

validateFormBody(st, fieldId, val) ==
    LET result == validateField(fieldId, val[fieldId])
    IN  IF ~result.isValid
        THEN [ isFormValid |-> FALSE,
               firstInvalidField |->
                   IF st.firstInvalidField = "null" THEN fieldId
                   ELSE st.firstInvalidField,
               d |-> showFieldError(st.d, fieldId, result.errorMessage) ]
        ELSE [ st EXCEPT !.d = clearFieldError(st.d, fieldId, TRUE) ]

\* the loop that stops one field early
RECURSIVE validateFormLoop_SkipsLast(_, _, _)
validateFormLoop_SkipsLast(st, i, val) ==
    IF i >= Len(fields) THEN st
    ELSE validateFormLoop_SkipsLast(validateFormBody(st, fields[i], val), i + 1, val)

RECURSIVE validateFormLoop(_, _, _)
validateFormLoop(st, i, val) ==
    IF i > Len(fields) THEN st
    ELSE validateFormLoop(validateFormBody(st, fields[i], val), i + 1, val)

\* HTMLElement.focus(): the element that loses the focus, if it is one of
\* the four inputs, gets its blur listener called
focusElement(d, foc, target, val) ==
    [ d |-> IF foc \in FieldIds /\ foc # target
            THEN blurListener(d, foc, val) ELSE d,
      focused |-> target ]

\* validateForm() -> [ret, d, focused]
validateForm(d, foc, val) ==
    LET st == validateFormLoop(
                  [isFormValid |-> TRUE, firstInvalidField |-> "null", d |-> d],
                  1, val)
    IN  IF st.firstInvalidField # "null"
        THEN LET f == focusElement(st.d, foc, st.firstInvalidField, val)
             IN  [ret |-> st.isFormValid, d |-> f.d, focused |-> f.focused]
        ELSE [ret |-> st.isFormValid, d |-> st.d, focused |-> foc]

(***************************************************************************)
(* The message store.                                                      *)
(* A localStorage item is [kind, val]: kind "absent" (getItem gives null), *)
(* "json" (the text JSON.stringify makes of val) or "corrupt" (a text that *)
(* JSON.parse rejects); val is <<>> unless kind is "json".                 *)
(***************************************************************************)
JSONstringify(v) == [kind |-> "json", val |-> v]

\* JSON.parse(text) -> [threw, isNull, val]; JSON.parse(null) is null
JSONparse(item) ==
    CASE item.kind = "corrupt" -> [threw |-> TRUE,  isNull |-> FALSE, val |-> <<>>]
      [] item.kind = "absent"  -> [threw |-> FALSE, isNull |-> TRUE,  val |-> <<>>]
      [] item.kind = "json"    -> [threw |-> FALSE, isNull |-> FALSE, val |-> item.val]

\* getMessagesFromStorage() -> [threw, val]
getMessagesFromStorage(item) ==
    LET p == JSONparse(item)
    IN  [ threw |-> p.threw,
          val |-> IF p.threw \/ p.isNull THEN <<>> ELSE p.val ]

\* saveMessageToStorage(message) -> [threw, item]: the item afterwards
saveMessageToStorage(item, message) ==
    LET p == JSONparse(item)
    IN  IF p.threw THEN [threw |-> TRUE, item |-> item]
        ELSE LET messages == IF p.isNull THEN <<>> ELSE p.val
             IN  [ threw |-> FALSE,
                   item |-> JSONstringify(<<message>> \o messages) ]

(***************************************************************************)
(* What the user may type into each input, and what form.reset() restores. *)
(***************************************************************************)
FormInputs ==
    [ senderName  |-> { <<>>, <<" ", "J", "o", " ">> },
      senderEmail |-> { <<>>, <<"j", "o", "@", "x", ".", "c", "o", "m", " ">> },
      subject     |-> { <<>>, <<" ", "H", "i", " ", "t", "h", "e", "r", "e">> },
      message     |-> { <<>>, <<"s", "h", "o", "r", "t">>,
                        <<" ", "T", "h", "i", "s", " ", "i", "s", " ", "l",
                          "o", "n", "g", ".", " ">> } ]

defaultValue == [f \in FieldIds |-> <<>>]

StatusEmpty == [className |-> "form-status", textContent |-> ""]
StatusFixErrors ==
    [ className |-> "form-status error",
      textContent |-> "Please fix the errors above and try again." ]
StatusSuccess ==
    [ className |-> "form-status success",
      textContent |-> "Message sent successfully! I'll get back to you soon." ]
StatusFailed ==
    [ className |-> "form-status error",
      textContent |-> "Failed to send message. Please try again or email me directly." ]

BtnNormal  == [disabled |-> FALSE, textContent |-> "Send Message"]
\* the loading state without the button disabled
BtnSending_Enabled == [disabled |-> FALSE, textContent |-> "Sending..."]

BtnSending == [disabled |-> TRUE,  textContent |-> "Sending..."]

(***************************************************************************)
(* Init: the page as loaded, the modal closed, the form empty; the store   *)
(* item is whatever an earlier visit (or anything else writing to          *)
(* localStorage) left: nothing, or a text that cannot be parsed.           *)
(***************************************************************************)
InitForm ==
    /\ modalActive = FALSE
    /\ bodyOverflow = ""
    /\ value = defaultValue
    /\ classList = [f \in FieldIds |-> {}]
    /\ spanText = [f \in FieldIds |-> ""]
    /\ spanVisible = [f \in FieldIds |-> FALSE]
    /\ clearTimers = {}
    /\ focused = "other"
    /\ formStatus = StatusEmpty
    /\ submitBtn = BtnNormal
    /\ sending = <<>>
    /\ sendPromise = "none"
    /\ closeTimers = 0
    /\ now = 0

\* the messages modal as loaded: closed, its list not yet rendered (the
\* first render comes before the modal is first shown)
InitMessages ==
    /\ messagesModalActive = FALSE
    /\ rendered = [ messageCount |-> [count |-> 0, noun |-> "messages"],
                    clearBtnDisabled |-> TRUE,
                    messagesEmptyVisible |-> TRUE,
                    messagesList |-> <<>> ]

\* the theme after initializeTheme has run with nothing stored and an OS
\* that prefers light
ThemeAtRest ==
    /\ themeItem = "absent"
    /\ darkMode = FALSE
    /\ prefersDark = FALSE
    /\ themeLoaded = TRUE

\* the timeline as initExperienceTimeline() finds and leaves it: the markup
\* gives the class 'active' to the nav item of data-index 0
TimelineAtRest ==
    /\ navActive = {0}
    /\ currentActiveIndex = 0
    /\ lastEntered = -1

ValidatorOff ==
    /\ vpc = "off"
    /\ vField = "senderName"
    /\ vValue = <<>>
    /\ vResult = [isValid |-> TRUE, errorMessage |-> ""]

Init ==
    /\ InitForm
    /\ InitMessages
    /\ ThemeAtRest
    /\ TimelineAtRest
    /\ contactMessages \in { [kind |-> "absent", val |-> <<>>],
                             [kind |-> "corrupt", val |-> <<>>] }
    /\ ValidatorOff

\* The 200 ms timers of clearFieldError have fired. The events of the user,
\* of the network and of the 2500 ms timers are taken to come only then: the
\* callback of such a timer writes only the text of a span that is not
\* visible, which no handler reads.
Settled == clearTimers = {}

setIndicators(d) ==
    /\ classList' = d.classList
    /\ spanText' = d.spanText
    /\ spanVisible' = d.spanVisible
    /\ clearTimers' = d.clearTimers

(***************************************************************************)
(* The contact modal.                                                      *)
(***************************************************************************)
openModal ==
    /\ Settled
    /\ modalActive' = TRUE
    /\ bodyOverflow' = "hidden"
    /\ UNCHANGED << value, classList, spanText, spanVisible, clearTimers,
                    focused, formStatus, submitBtn, sending, sendPromise, closeTimers,
                    contactMessages, now >>
    /\ UNCHANGED << validatorVars, messagesVars, themeVars, timelineVars >>

\* closeModal() that also gives up the send in flight: the button is reset
closeModal_ResetsButton ==
    /\ modalActive' = FALSE
    /\ bodyOverflow' = ""
    /\ value' = defaultValue
    /\ formStatus' = StatusEmpty
    /\ submitBtn' = BtnNormal
    /\ UNCHANGED << classList, spanText, spanVisible, clearTimers, focused,
                    sending, sendPromise, contactMessages, now >>
    /\ UNCHANGED << validatorVars, themeVars, timelineVars >>

\* closeModal(), but for the timers it is called from
closeModal ==
    /\ modalActive' = FALSE
    /\ bodyOverflow' = ""
    /\ value' = defaultValue
    /\ formStatus' = StatusEmpty
    /\ UNCHANGED << classList, spanText, spanVisible, clearTimers, focused,
                    submitBtn, sending, sendPromise, contactMessages, now >>
    /\ UNCHANGED << validatorVars, themeVars, timelineVars >>

\* the X button of the contact modal or a click on its overlay (on screen
\* only while that modal is active), the Escape key while the messages
\* modal is closed
UserCloseModal ==
    /\ Settled
    /\ ~( messagesModalActive /\ ~modalActive )
    /\ closeModal
    /\ UNCHANGED closeTimers
    /\ UNCHANGED messagesVars

\* the 2500 ms timer set by the success handler
AutoCloseTimer ==
    /\ Settled
    /\ closeTimers > 0
    /\ closeTimers' = closeTimers - 1
    /\ closeModal
    /\ UNCHANGED messagesVars

(***************************************************************************)
(* The user in the form: moving the focus, typing.                         *)
(***************************************************************************)
\* the focus moves to another input or away from the inputs ("other");
\* the input that loses it gets a blur event
MoveFocus(target) ==
    /\ Settled
    /\ modalActive
    /\ target # focused
    /\ LET f == focusElement(Indicators, focused, target, value)
       IN  /\ setIndicators(f.d)
           /\ focused' = f.focused
    /\ UNCHANGED << modalActive, bodyOverflow, value, formStatus, submitBtn,
                    sending, sendPromise, closeTimers, contactMessages, now >>
    /\ UNCHANGED << validatorVars, messagesVars, themeVars, timelineVars >>

\* the focused input gets the value v and an input event
TypeInto(fieldId, v) ==
    /\ Settled
    /\ modalActive
    /\ focused = fieldId
    /\ v # value[fieldId]
    /\ value' = [value EXCEPT ![fieldId] = v]
    /\ setIndicators(inputListener(Indicators, fieldId, value'))
    /\ UNCHANGED << modalActive, bodyOverflow, focused, formStatus, submitBtn,
                    sending, sendPromise, closeTimers, contactMessages, now >>
    /\ UNCHANGED << validatorVars, messagesVars, themeVars, timelineVars >>

\* a 200 ms timer of clearFieldError fires
ClearTextTimer(fieldId) ==
    /\ fieldId \in clearTimers
    /\ setIndicators(clearTextCallback(Indicators, fieldId))
    /\ UNCHANGED << modalActive, bodyOverflow, value, focused, formStatus,
                    submitBtn, sending, sendPromise, closeTimers, contactMessages, now >>
    /\ UNCHANGED << validatorVars, messagesVars, themeVars, timelineVars >>

(***************************************************************************)
(* handleSubmit and the two callbacks of emailjs.send.                     *)
(***************************************************************************)
\* the formData object handleSubmit builds
collectFormData_Untrimmed(val, clock) ==
    [ id |-> clock,
      name |-> val["senderName"],
      email |-> val["senderEmail"],
      subject |-> val["subject"],
      message |-> val["message"],
      date |-> clock ]

collectFormData(val, clock) ==
    [ id |-> clock,
      name |-> trim(val["senderName"]),
      email |-> trim(val["senderEmail"]),
      subject |-> trim(val["subject"]),
      message |-> trim(val["message"]),
      date |-> clock ]

\* what Date.now() may return: the clock has not moved since its latest
\* reading, or it has
ClockReadings == { now } \cup IF now < MaxClock THEN { now + 1 } ELSE {}

\* handleSubmit that stores the record as soon as validation passes
handleSubmit_SavesAtOnce(clock) ==
    /\ Settled
    /\ modalActive
    /\ ~submitBtn.disabled
    /\ Len(sending) + Len(contactMessages.val) < MaxStored
    /\ LET v == validateForm(Indicators, focused, value)
       IN  /\ setIndicators(v.d)
           /\ focused' = v.focused
           /\ IF ~v.ret
              THEN /\ formStatus' = StatusFixErrors
                   /\ UNCHANGED << submitBtn, sending, sendPromise, now,
                                   contactMessages >>
              ELSE /\ formStatus' = StatusEmpty
                   /\ submitBtn' = BtnSending
                   /\ sending' = Append(sending, collectFormData(value, clock))
                   /\ sendPromise' = "pending"
                   /\ now' = clock
                   /\ contactMessages' =
                         saveMessageToStorage(
                             contactMessages,
                             collectFormData(value, clock)).item
    /\ UNCHANGED << modalActive, bodyOverflow, value, closeTimers >>
    /\ UNCHANGED << validatorVars, messagesVars, themeVars, timelineVars >>

\* The submit event of the form. The browser dispatches it only from a
\* form the user can reach and whose submit button is not disabled.
\* clock is what Date.now() returns: no less than its latest reading.
handleSubmit(clock) ==
    /\ Settled
    /\ modalActive
    /\ ~submitBtn.disabled
    /\ Len(sending) + Len(contactMessages.val) < MaxStored
    /\ LET v == validateForm(Indicators, focused, value)
       IN  /\ setIndicators(v.d)
           /\ focused' = v.focused
           /\ IF ~v.ret
              THEN /\ formStatus' = StatusFixErrors
                   /\ UNCHANGED << submitBtn, sending, sendPromise, now >>
              ELSE /\ formStatus' = StatusEmpty
                   /\ submitBtn' = BtnSending
                   /\ sending' = Append(sending, collectFormData(value, clock))
                   /\ sendPromise' = "pending"
                   /\ now' = clock
    /\ UNCHANGED << modalActive, bodyOverflow, value, closeTimers,
                    contactMessages >>
    /\ UNCHANGED << validatorVars, messagesVars, themeVars, timelineVars >>

RemoveAt(seq, i) == SubSeq(seq, 1, i - 1) \o SubSeq(seq, i + 1, Len(seq))

\* the .catch callback that leaves the button as it is
sendFailed_KeepsDisabled ==
    /\ formStatus' = StatusFailed
    /\ UNCHANGED submitBtn

\* the .catch callback
sendFailed ==
    /\ formStatus' = StatusFailed
    /\ submitBtn' = BtnNormal

RECURSIVE clearAllFieldErrors(_, _)
clearAllFieldErrors(d, i) ==
    IF i > Len(fields) THEN d
    ELSE clearAllFieldErrors(clearFieldError(d, fields[i], FALSE), i + 1)

\* emailjs.send of sending[i] is acknowledged: the .then callback, and the
\* .catch callback after it when the .then callback throws
SendAcknowledged(i) ==
    /\ Settled
    /\ i \in 1..Len(sending)
    /\ sending' = RemoveAt(sending, i)
    /\ sendPromise' = "fulfilled"
    /\ LET saved == saveMessageToStorage(contactMessages, sending[i])
       IN  IF saved.threw
           THEN /\ sendFailed
                /\ UNCHANGED << value, classList, spanText, spanVisible,
                                clearTimers, closeTimers, contactMessages >>
           ELSE /\ contactMessages' = saved.item
                /\ formStatus' = StatusSuccess
                /\ submitBtn' = BtnNormal
                /\ value' = defaultValue
                /\ setIndicators(clearAllFieldErrors(Indicators, 1))
                /\ closeTimers' = closeTimers + 1
    /\ UNCHANGED << modalActive, bodyOverflow, focused, now >>
    /\ UNCHANGED << validatorVars, messagesVars, themeVars, timelineVars >>

\* the .catch callback that also stores the record
SendRejected_AlsoSaves(i) ==
    /\ Settled
    /\ i \in 1..Len(sending)
    /\ sending' = RemoveAt(sending, i)
    /\ sendPromise' = "rejected"
    /\ sendFailed
    /\ contactMessages' = saveMessageToStorage(contactMessages, sending[i]).item
    /\ UNCHANGED << modalActive, bodyOverflow, value, classList, spanText,
                    spanVisible, clearTimers, focused, closeTimers, now >>
    /\ UNCHANGED << validatorVars, messagesVars, themeVars, timelineVars >>

\* emailjs.send of sending[i] is rejected: the .catch callback
SendRejected(i) ==
    /\ Settled
    /\ i \in 1..Len(sending)
    /\ sending' = RemoveAt(sending, i)
    /\ sendPromise' = "rejected"
    /\ sendFailed
    /\ UNCHANGED << modalActive, bodyOverflow, value, classList, spanText,
                    spanVisible, clearTimers, focused, closeTimers,
                    contactMessages, now >>
    /\ UNCHANGED << validatorVars, messagesVars, themeVars, timelineVars >>

(***************************************************************************)
(* The messages modal: renderMessagesList, deleteMessage, clearAllMessages.*)
(***************************************************************************)
\* the ids a stored record may carry
MessageIds == 0..MaxClock

\* `${count} message${count !== 1 ? 's' : ''}`
messageCountText(count) ==
    [count |-> count, noun |-> IF count # 1 THEN "messages" ELSE "message"]

\* what renderMessagesList writes for the array messages: the count, the
\* Clear All button, the empty-state block and one card for each message
\* (of a card, the id its data-id and its delete button carry)
renderDOM(messages) ==
    [ messageCount |-> messageCountText(Len(messages)),
      clearBtnDisabled |-> (Len(messages) = 0),
      messagesEmptyVisible |-> (Len(messages) = 0),
      messagesList |-> [i \in 1..Len(messages) |-> messages[i].id] ]

\* renderMessagesList() -> [threw, dom]
renderMessagesList(item, dom) ==
    LET got == getMessagesFromStorage(item)
    IN  IF got.threw THEN [threw |-> TRUE, dom |-> dom]
        ELSE [threw |-> FALSE, dom |-> renderDOM(got.val)]

\* messages.filter(msg => msg.id !== messageId)
RECURSIVE filterOutId(_, _)
filterOutId(messages, messageId) ==
    IF messages = <<>> THEN <<>>
    ELSE ( IF Head(messages).id # messageId THEN << Head(messages) >> ELSE <<>> )
         \o filterOutId(Tail(messages), messageId)

\* the View Messages button; nothing is done when the render throws
openMessagesModal ==
    /\ Settled
    /\ LET r == renderMessagesList(contactMessages, rendered)
       IN  IF r.threw
           THEN UNCHANGED << bodyOverflow, messagesModalActive, rendered >>
           ELSE /\ rendered' = r.dom
                /\ messagesModalActive' = TRUE
                /\ bodyOverflow' = "hidden"
    /\ UNCHANGED << modalActive, value, classList, spanText, spanVisible,
                    clearTimers, focused, formStatus, submitBtn, sending, sendPromise,
                    closeTimers, contactMessages, now >>
    /\ UNCHANGED << validatorVars, themeVars, timelineVars >>

closeMessagesModal ==
    /\ messagesModalActive' = FALSE
    /\ bodyOverflow' = ""

\* the X button of the messages modal, a click on its overlay: both are
\* on screen only while that modal is active
UserCloseMessagesModal ==
    /\ Settled
    /\ messagesModalActive
    /\ closeMessagesModal
    /\ UNCHANGED << modalActive, value, classList, spanText, spanVisible,
                    clearTimers, focused, formStatus, submitBtn, sending, sendPromise,
                    closeTimers, contactMessages, now, rendered >>
    /\ UNCHANGED << validatorVars, themeVars, timelineVars >>

\* the Escape key: the keydown listener of the contact modal, then the one
\* of the messages modal
EscapeKey ==
    /\ Settled
    /\ closeModal
    /\ closeMessagesModal
    /\ UNCHANGED << closeTimers, rendered >>

\* the delete button of a card (or any other call) with messageId; the
\* cards are on screen while the messages modal is active
deleteMessage(messageId) ==
    /\ Settled
    /\ messagesModalActive
    /\ LET got == getMessagesFromStorage(contactMessages)
       IN  IF got.threw
           THEN UNCHANGED << contactMessages, rendered >>
           ELSE /\ contactMessages' =
                      JSONstringify(filterOutId(got.val, messageId))
                /\ rendered' =
                      renderMessagesList(contactMessages', rendered).dom
    /\ UNCHANGED << modalActive, bodyOverflow, value, classList, spanText,
                    spanVisible, clearTimers, focused, formStatus, submitBtn,
                    sending, sendPromise, closeTimers, now, messagesModalActive >>
    /\ UNCHANGED << validatorVars, themeVars, timelineVars >>

\* Clear All that erases without asking
clearAllMessages_NoConfirm(confirmed) ==
    /\ Settled
    /\ messagesModalActive
    /\ ~rendered.clearBtnDisabled
    /\ contactMessages' = [kind |-> "absent", val |-> <<>>]
    /\ rendered' = renderMessagesList(contactMessages', rendered).dom
    /\ UNCHANGED << modalActive, bodyOverflow, value, classList, spanText,
                    spanVisible, clearTimers, focused, formStatus, submitBtn,
                    sending, sendPromise, closeTimers, now, messagesModalActive >>
    /\ UNCHANGED << validatorVars, themeVars, timelineVars >>

\* the Clear All button, enabled while the list rendered is not empty;
\* confirmed is the answer given to confirm()
clearAllMessages(confirmed) ==
    /\ Settled
    /\ messagesModalActive
    /\ ~rendered.clearBtnDisabled
    /\ IF confirmed
       THEN /\ contactMessages' = [kind |-> "absent", val |-> <<>>]
            /\ rendered' = renderMessagesList(contactMessages', rendered).dom
       ELSE UNCHANGED << contactMessages, rendered >>
    /\ UNCHANGED << modalActive, bodyOverflow, value, classList, spanText,
                    spanVisible, clearTimers, focused, formStatus, submitBtn,
                    sending, sendPromise, closeTimers, now, messagesModalActive >>
    /\ UNCHANGED << validatorVars, themeVars, timelineVars >>

Next ==
    \/ openModal
    \/ UserCloseModal
    \/ AutoCloseTimer
    \/ \E target \in FieldIds \cup {"other"} : MoveFocus(target)
    \/ \E fieldId \in FieldIds : \E v \in FormInputs[fieldId] : TypeInto(fieldId, v)
    \/ \E fieldId \in FieldIds : ClearTextTimer(fieldId)
    \/ \E clock \in ClockReadings : handleSubmit(clock)
    \/ \E i \in 1..Len(sending) : SendAcknowledged(i)
    \/ \E i \in 1..Len(sending) : SendRejected(i)

Spec == Init /\ [][Next]_vars

\* Spec with its timers firing: a 200 ms timer that is pending fires, and so
\* does a 2500 ms timer (whose step waits for the 200 ms ones, so that it is
\* enabled again and again rather than continuously)
SpecLive ==
    /\ Spec
    /\ \A fieldId \in FieldIds : WF_vars(ClearTextTimer(fieldId))
    /\ SF_vars(AutoCloseTimer)

(***************************************************************************)
(* The theme: initializeTheme, toggleTheme, the listener of OS changes.    *)
(* The body is taken to carry no 'dark-mode' class in the markup.          *)
(***************************************************************************)
\* initializeTheme() that lets the OS preference decide whenever it is dark
initializeTheme_OSFirst ==
    /\ ~themeLoaded
    /\ themeLoaded' = TRUE
    /\ darkMode' = IF themeItem = "dark" \/ prefersDark THEN TRUE ELSE darkMode
    /\ UNCHANGED << themeItem, prefersDark >>
    /\ UNCHANGED << formVars, messagesVars, validatorVars, timelineVars >>

\* initializeTheme(), run once while the script loads
initializeTheme ==
    /\ ~themeLoaded
    /\ themeLoaded' = TRUE
    /\ LET savedTheme == themeItem
       IN  darkMode' = IF savedTheme = "dark"
                          \/ (savedTheme = "absent" /\ prefersDark)
                       THEN TRUE ELSE darkMode
    /\ UNCHANGED << themeItem, prefersDark >>
    /\ UNCHANGED << formVars, messagesVars, validatorVars, timelineVars >>

\* toggleTheme() that stores the theme the body had before the toggle
toggleTheme_SavesStale ==
    /\ themeLoaded
    /\ darkMode' = ~darkMode
    /\ themeItem' = IF darkMode THEN "dark" ELSE "light"
    /\ UNCHANGED << prefersDark, themeLoaded >>
    /\ UNCHANGED << formVars, messagesVars, validatorVars, timelineVars >>

\* the theme toggle button
toggleTheme ==
    /\ themeLoaded
    /\ darkMode' = ~darkMode
    /\ themeItem' = IF darkMode' THEN "dark" ELSE "light"
    /\ UNCHANGED << prefersDark, themeLoaded >>
    /\ UNCHANGED << formVars, messagesVars, validatorVars, timelineVars >>

\* the 'change' listener without its test of the stored theme
osThemeChange_Always(matches) ==
    /\ themeLoaded
    /\ matches # prefersDark
    /\ prefersDark' = matches
    /\ darkMode' = matches
    /\ UNCHANGED << themeItem, themeLoaded >>
    /\ UNCHANGED << formVars, messagesVars, validatorVars, timelineVars >>

\* the OS preference changes to matches: the 'change' listener
osThemeChange(matches) ==
    /\ themeLoaded
    /\ matches # prefersDark
    /\ prefersDark' = matches
    /\ darkMode' = IF themeItem = "absent" THEN matches ELSE darkMode
    /\ UNCHANGED << themeItem, themeLoaded >>
    /\ UNCHANGED << formVars, messagesVars, validatorVars, timelineVars >>

(***************************************************************************)
(* The experience timeline: the IntersectionObserver callback of           *)
(* initExperienceTimeline and setActiveTimelineItem. Cards and nav items   *)
(* carry the data-index values 0 .. NumTimelineItems - 1.                  *)
(***************************************************************************)
ExpCards == 0 .. (NumTimelineItems - 1)

TimelineNavItems == 0 .. (NumTimelineItems - 1)

\* what one notification tells of a card: nothing, an entry with
\* isIntersecting, an entry without. The observer queues at most one entry
\* for a target in a frame, in the order of the observe() calls, which is
\* the order of the cards; a notification carries 1 to MaxEntries entries
Notifications ==
    { n \in [ExpCards -> {"none", "entering", "leaving"}] :
        /\ \E c \in ExpCards : n[c] # "none"
        /\ Cardinality({ c \in ExpCards : n[c] # "none" }) <= MaxEntries }

\* setActiveTimelineItem(index) that adds the class without removing it
\* from the other nav items
setActiveTimelineItem_KeepsOthers(st, index) ==
    IF st.currentActiveIndex = index
    THEN st
    ELSE [ currentActiveIndex |-> index,
           navActive |-> st.navActive \cup ({index} \cap TimelineNavItems) ]

\* setActiveTimelineItem(index) on st = [currentActiveIndex, navActive]
setActiveTimelineItem(st, index) ==
    IF st.currentActiveIndex = index
    THEN st
    ELSE [ currentActiveIndex |-> index,
           navActive |-> (st.navActive \ TimelineNavItems)
                            \cup ({index} \cap TimelineNavItems) ]

\* entries.forEach of the observer callback, from card c on; h is the
\* data-index of the latest entry with isIntersecting
RECURSIVE observerCallback(_, _, _, _)
observerCallback(st, h, entries, c) ==
    IF c \notin ExpCards
    THEN [ st |-> st, lastEntered |-> h ]
    ELSE IF entries[c] = "entering"
    THEN observerCallback(setActiveTimelineItem(st, c), c, entries, c + 1)
    ELSE observerCallback(st, h, entries, c + 1)

\* the observer delivers a notification
intersectionNotification(entries) ==
    /\ LET r == observerCallback(
                   [ currentActiveIndex |-> currentActiveIndex,
                     navActive |-> navActive ], lastEntered, entries, 0)
       IN  /\ navActive' = r.st.navActive
           /\ currentActiveIndex' = r.st.currentActiveIndex
           /\ lastEntered' = r.lastEntered
    /\ UNCHANGED << formVars, messagesVars, themeVars, validatorVars >>

(***************************************************************************)
(* The page around the form: the store with its functions called on their  *)
(* own, the messages modal, the two modals opening and closing, the theme. *)
(* Init is the page while its script loads; the store item and the theme   *)
(* item are what an earlier visit left.                                    *)
(***************************************************************************)
\* a value of each field that passes validation
ValidValues ==
    [ f \in FieldIds |->
        CHOOSE v \in FormInputs[f] : validateField(f, v).isValid ]

\* the records handleSubmit can build from them
TestMessages == { collectFormData(ValidValues, clock) : clock \in MessageIds }

\* saveMessageToStorage(message) called on its own; nothing is written
\* when it throws
saveMessageCall(message) ==
    /\ Len(contactMessages.val) < MaxStored
    /\ contactMessages' = saveMessageToStorage(contactMessages, message).item
    /\ UNCHANGED << modalActive, bodyOverflow, value, classList, spanText,
                    spanVisible, clearTimers, focused, formStatus, submitBtn,
                    sending, sendPromise, closeTimers, now >>
    /\ UNCHANGED << messagesVars, themeVars, validatorVars, timelineVars >>

InitPage ==
    /\ InitForm
    /\ InitMessages
    /\ TimelineAtRest
    /\ ValidatorOff
    /\ contactMessages \in { [kind |-> "absent", val |-> <<>>],
                             [kind |-> "corrupt", val |-> <<>>] }
    /\ themeItem \in { "absent", "dark", "light" }
    /\ prefersDark \in BOOLEAN
    /\ darkMode = FALSE
    /\ themeLoaded = FALSE

NextPage ==
    \/ \E message \in TestMessages : saveMessageCall(message)
    \/ \E messageId \in MessageIds : deleteMessage(messageId)
    \/ \E confirmed \in BOOLEAN : clearAllMessages(confirmed)
    \/ openMessagesModal
    \/ UserCloseMessagesModal
    \/ openModal
    \/ UserCloseModal
    \/ EscapeKey
    \/ initializeTheme
    \/ toggleTheme
    \/ \E matches \in BOOLEAN : osThemeChange(matches)
    \/ \E entries \in Notifications : intersectionNotification(entries)

SpecPage == InitPage /\ [][NextPage]_vars

(***************************************************************************)
(* validateField on its own: Init draws the field and the raw value,       *)
(* ValidatorCall applies the function.                                     *)
(***************************************************************************)
\* the lengths around every minLength and maxLength of the rule table
TestLengths ==
    { 0, 1, 2, 3, 4, 9, 10, 11, 99, 100, 101, 199, 200, 201, 4999, 5000, 5001 }

\* runs of whitespace of up to MaxPad characters
Pads == UNION { [1..k -> {" ", "\t"}] : k \in 0..MaxPad }

\* a value of n characters without whitespace at either end
Bodies(n) ==
    { Rep("x", n) } \cup
    ( IF n >= 3 THEN { [i \in 1..n |-> IF i = 2 THEN " " ELSE "x"] } ELSE {} )

LengthInputs ==
    { l \o b \o t : l \in Pads, t \in Pads,
                    b \in UNION { Bodies(n) : n \in TestLengths } }

EmailAlphabet == { "a", "@", ".", " " }

EmailInputs ==
    UNION { [1..k -> EmailAlphabet] : k \in 0..MaxEmailLen }
    \cup { l \o e \o t : l \in Pads, t \in Pads,
           e \in { <<"a", "@", "b", ".", "c", "o">>,
                   <<"n", "o", "t", "-", "a", "n", "-", "e", "m", "a", "i", "l">>,
                   <<"a", ".", "b", "@", "c", ".", "d", ".", "e">> } }

ValidatorInputs == LengthInputs \cup EmailInputs

InitValidator ==
    /\ InitForm
    /\ InitMessages
    /\ ThemeAtRest
    /\ TimelineAtRest
    /\ contactMessages = [kind |-> "absent", val |-> <<>>]
    /\ vpc = "call"
    /\ vField \in FieldIds
    /\ vValue \in ValidatorInputs
    /\ vResult = [isValid |-> TRUE, errorMessage |-> ""]

ValidatorCall ==
    /\ vpc = "call"
    /\ vResult' = validateField(vField, vValue)
    /\ vpc' = "done"
    /\ UNCHANGED << vField, vValue >>
    /\ UNCHANGED << formVars, messagesVars, themeVars, timelineVars >>

NextValidator == ValidatorCall

SpecValidator == InitValidator /\ [][NextValidator]_vars

(***************************************************************************)
(* Properties of validateField, checked under SpecValidator.               *)
(***************************************************************************)
\* t is local@domain: one "@", no whitespace, a non-empty local part, and a
\* "." in the domain that is neither its first nor its last character
EmailShape(t) ==
    /\ \A i \in 1..Len(t) : ~IsSpace(t[i])
    /\ \E a \in 2..Len(t) :
          /\ t[a] = "@"
          /\ \A i \in 1..Len(t) : t[i] = "@" => i = a
          /\ \E dot \in (a + 2)..(Len(t) - 1) : t[dot] = "."

RuleOrder == << "required", "minLength", "maxLength", "pattern" >>

\* the field has the rule and the raw value v fails it
RuleFails(rule, fieldId, v) ==
    LET r == validationRules[fieldId]
        n == Len(trim(v))
    IN  /\ rule \in DOMAIN r
        /\ CASE rule = "required"  -> n = 0
             [] rule = "minLength" -> n < r.minLength
             [] rule = "maxLength" -> n > r.maxLength
             [] rule = "pattern"   -> ~EmailShape(trim(v))

\* C5: validateField returns the message of the first rule, in the order
\* required, minLength, maxLength, pattern, that the field has and the value
\* fails, and returns valid with an empty message iff the value fails none.
C5_FirstFailingRuleWins ==
    vpc = "done" =>
        LET failing == { k \in 1..4 : RuleFails(RuleOrder[k], vField, vValue) }
        IN  IF failing = {}
            THEN vResult = [isValid |-> TRUE, errorMessage |-> ""]
            ELSE LET first == CHOOSE k \in failing : \A j \in failing : k <= j
                 IN  vResult =
                       [ isValid |-> FALSE,
                         errorMessage |->
                           validationRules[vField].errorMessages[RuleOrder[first]] ]

\* a whitespace-only subject fails the required and the minLength rule, and
\* the required message is the one returned
C5_Witness ==
    /\ vpc = "done"
    /\ vField = "subject"
    /\ vValue = <<" ">>
    /\ vResult = [isValid |-> FALSE, errorMessage |-> "Please enter a subject"]

\* C6: for each of the four fields an empty or whitespace-only value is
\* invalid, with the required message of that field.
C6_RequiredMessage ==
    ( /\ vpc = "done"
      /\ vField \in {"senderName", "senderEmail", "subject", "message"}
      /\ \A i \in 1..Len(vValue) : IsSpace(vValue[i]) )
    => /\ ~vResult.isValid
       /\ vResult.errorMessage =
            CASE vField = "senderName"  -> "Please enter your name"
              [] vField = "senderEmail" -> "Please enter your email address"
              [] vField = "subject"     -> "Please enter a subject"
              [] vField = "message"     -> "Please enter your message"

C6_Witness ==
    /\ vpc = "done"
    /\ vField = "senderEmail"
    /\ vValue = <<"\t">>
    /\ vResult.errorMessage = "Please enter your email address"

C8_EmailShape ==
    (vpc = "done" /\ vField = "senderEmail") =>
        /\ vResult.isValid <=> EmailShape(trim(vValue))
        /\ trim(vValue) = <<"a", "@", "b", ".", "c", "o">> => vResult.isValid
        /\ trim(vValue) = <<"n", "o", "t", "-", "a", "n", "-", "e", "m", "a", "i", "l">>
               => ~vResult.isValid

C8_Witness ==
    /\ vpc = "done"
    /\ vField = "senderEmail"
    /\ vValue = <<"a", "@", "b", ".", "c", "o">>
    /\ vResult.isValid

(***************************************************************************)
(* Properties of the submission flow, checked under Spec.                  *)
(***************************************************************************)
AllFields == { "senderName", "senderEmail", "subject", "message" }

FailingFields == { f \in AllFields : ~validateField(f, value[f]).isValid }

\* a step of handleSubmit (its first two conjuncts, true of every such step,
\* spare evaluating the handler on the other steps)
SubmitStep ==
    /\ value' = value /\ modalActive' = modalActive /\ clearTimers = {}
    /\ \/ Len(sending') = Len(sending) + 1
       \/ formStatus'.textContent = "Please fix the errors above and try again."
    /\ \E clock \in ClockReadings : handleSubmit(clock)

\* C1: when a send is acknowledged, the record of that submission is put in
\* front of the stored collection, the banner shows the success message and
\* one more delayed closeModal is pending.
C1_AckStoresRecord ==
    [][ \A i \in 1..Len(sending) :
          SendAcknowledged(i) =>
            /\ contactMessages'.kind = "json"
            /\ contactMessages'.val =
                 << sending[i] >> \o getMessagesFromStorage(contactMessages).val
            /\ formStatus'.className = "form-status success"
            /\ formStatus'.textContent =
                 "Message sent successfully! I'll get back to you soon."
            /\ closeTimers' = closeTimers + 1 ]_vars

\* C2: when a send is rejected, the stored collection is unchanged, the
\* banner shows the failure message and the submit button is enabled again
\* with its normal label.
C2_RejectLeavesStore ==
    [][ \A i \in 1..Len(sending) :
          SendRejected(i) =>
            /\ contactMessages' = contactMessages
            /\ formStatus'.className = "form-status error"
            /\ formStatus'.textContent =
                 "Failed to send message. Please try again or email me directly."
            /\ submitBtn' = [disabled |-> FALSE, textContent |-> "Send Message"] ]_vars

\* a rejected send with a readable store: the banner, the button, no record
C2_Witness ==
    /\ formStatus.textContent =
         "Failed to send message. Please try again or email me directly."
    /\ contactMessages = [kind |-> "absent", val |-> <<>>]
    /\ sending = <<>>
    /\ ~submitBtn.disabled

\* C3: at most one send attempt is outstanding at any time.
C3_OneOutstanding == Len(sending) <= 1

\* a send is outstanding while the form is open and holds four valid values
C3_Witness ==
    /\ Len(sending) = 1
    /\ modalActive
    /\ FailingFields = {}

\* C4: a submit event with a field failing validation calls no send, leaves
\* the stored collection and the submit button alone and shows the
\* 'Please fix the errors above and try again.' error.
C4_InvalidSubmitStaysIdle ==
    [][ (SubmitStep /\ FailingFields # {}) =>
          /\ sending' = sending
          /\ contactMessages' = contactMessages
          /\ submitBtn' = submitBtn
          /\ ~submitBtn'.disabled
          /\ formStatus' =
               [ className |-> "form-status error",
                 textContent |-> "Please fix the errors above and try again." ] ]_vars

\* the form submitted with a message of five characters and the rest valid
C4_Witness ==
    /\ formStatus.textContent = "Please fix the errors above and try again."
    /\ FailingFields = {"message"}
    /\ value["message"] = <<"s", "h", "o", "r", "t">>
    /\ sending = <<>>
    /\ ~submitBtn.disabled

\* C9: validateForm returns true iff validateField reports every one of the
\* four fields valid on the current values.
C9_FormValidIffAllValid ==
    validateForm(Indicators, focused, value).ret
        <=> \A f \in AllFields : validateField(f, value[f]).isValid

\* validateForm has returned false on a form with valid and invalid fields
C9_Witness ==
    /\ formStatus.textContent = "Please fix the errors above and try again."
    /\ ~validateForm(Indicators, focused, value).ret
    /\ FailingFields = {"senderEmail", "message"}
    /\ "valid" \in classList["senderName"]

\* the first field, in the order validateForm visits them, of a set of fields
FirstOf(failing) ==
    LET order == << "senderName", "senderEmail", "subject", "message" >>
        i == CHOOSE i \in 1..4 :
                 /\ order[i] \in failing
                 /\ \A j \in 1..(i - 1) : order[j] \notin failing
    IN  order[i]

\* C10: after validateForm every failing field carries the error indicator
\* with its own message, every passing field the valid indicator, and the
\* focus is on the first failing field (where it was when none fails).
C10_NotFailFast ==
    [][ SubmitStep =>
          LET result == [ f \in AllFields |-> validateField(f, value[f]) ]
              failing == { f \in AllFields : ~result[f].isValid }
          IN  /\ \A f \in failing :
                    /\ "error" \in classList'[f] /\ "valid" \notin classList'[f]
                    /\ spanVisible'[f]
                    /\ spanText'[f] = result[f].errorMessage
              /\ \A f \in AllFields \ failing :
                    /\ "valid" \in classList'[f] /\ "error" \notin classList'[f]
                    /\ ~spanVisible'[f]
              /\ focused' = IF failing = {} THEN focused ELSE FirstOf(failing)
      ]_vars

\* two failing fields carry their own messages, the passing one is marked
\* valid, and the focus is on the first failing field
C10_Witness ==
    /\ formStatus.textContent = "Please fix the errors above and try again."
    /\ FailingFields = {"senderEmail", "message"}
    /\ classList["senderEmail"] = {"error"} /\ classList["message"] = {"error"}
    /\ spanText["senderEmail"] = "Please enter your email address"
    /\ spanText["message"] = "Message must be at least 10 characters"
    /\ spanVisible["senderEmail"] /\ spanVisible["message"]
    /\ classList["senderName"] = {"valid"} /\ classList["subject"] = {"valid"}
    /\ focused = "senderEmail"


(***************************************************************************)
(* Properties of the store and of the messages modal, under SpecPage.      *)
(***************************************************************************)
\* C11: after saveMessageToStorage(m), getMessagesFromStorage returns m
\* followed by the contents the store had before, whatever the store holds.
C11_MostRecentFirst ==
    \A m \in TestMessages :
        LET before == getMessagesFromStorage(contactMessages)
            saved == saveMessageToStorage(contactMessages, m)
            after == getMessagesFromStorage(saved.item)
        IN  /\ ~saved.threw
            /\ ~after.threw
            /\ after.val = << m >> \o before.val

\* the indices of the entries of messages that carry messageId
Matching(messages, messageId) ==
    { k \in 1..Len(messages) : messages[k].id = messageId }

\* C12: deleteMessage(id) removes exactly one entry with that id and keeps
\* the others in their order; with no such entry the collection is as before.
C12_DeleteRemovesOne ==
    [][ \A messageId \in MessageIds :
          deleteMessage(messageId) =>
            LET old == getMessagesFromStorage(contactMessages).val
                new == getMessagesFromStorage(contactMessages').val
            IN  IF Matching(old, messageId) = {}
                THEN new = old
                ELSE \E k \in Matching(old, messageId) : new = RemoveAt(old, k)
      ]_vars

\* C14: Clear All erases the collection when the user confirms, and leaves
\* the stored item alone when the user declines.
C14_ClearNeedsConfirm ==
    [][ /\ clearAllMessages(TRUE) =>
              getMessagesFromStorage(contactMessages')
                  = [threw |-> FALSE, val |-> <<>>]
        /\ clearAllMessages(FALSE) => contactMessages' = contactMessages
      ]_vars

\* the confirmation is asked: Clear All is enabled over a list of two cards
C14_Witness ==
    /\ messagesModalActive
    /\ ~rendered.clearBtnDisabled
    /\ Len(rendered.messagesList) = 2
    /\ Len(getMessagesFromStorage(contactMessages).val) = 2

\* C15: an absent or unparsable item reads as the empty collection, and
\* saveMessageToStorage(m) on it completes and leaves exactly m.
C15_CorruptReadsAsEmpty ==
    contactMessages.kind \in { "absent", "corrupt" } =>
        /\ getMessagesFromStorage(contactMessages)
              = [threw |-> FALSE, val |-> <<>>]
        /\ \A m \in TestMessages :
              saveMessageToStorage(contactMessages, m)
                  = [threw |-> FALSE, item |-> JSONstringify(<< m >>)]


(***************************************************************************)
(* Properties of the submission flow, under Spec and SpecLive (continued). *)
(***************************************************************************)
\* C13: when an acknowledged send appends its record, no record already in
\* the store carries the same id.
C13_IdsUniqueAtInsertion ==
    [][ \A i \in 1..Len(sending) :
          ( /\ sendPromise = "pending" /\ sendPromise' = "fulfilled"
            /\ SendAcknowledged(i) ) =>
            \A k \in 1..Len(contactMessages.val) :
                contactMessages.val[k].id # sending[i].id ]_vars

\* the contact modal is closed, the form reset and the banner empty
ModalClosedAndReset ==
    /\ ~modalActive
    /\ value = defaultValue
    /\ formStatus = StatusEmpty

\* C16: a send that was acknowledged (its outcome is still on the banner)
\* is followed by a state with the modal closed, the form reset and the
\* banner empty.
C16_AckLeadsToClose ==
    ( /\ sendPromise = "fulfilled"
      /\ formStatus \in { StatusSuccess, StatusFailed } )
        ~> ModalClosedAndReset

\* C17: while a send is outstanding only its resolution ends the Sending
\* state: every other step leaves the send outstanding and the button
\* disabled with the label 'Sending...'.
C17_SendingUntilResolved ==
    [][ ( /\ sending # <<>>
          /\ sending' # sending \/ submitBtn' # BtnSending ) =>
            \E i \in 1..Len(sending) : SendAcknowledged(i) \/ SendRejected(i)
      ]_vars

\* a send is still outstanding in a modal that was closed and opened again
C17_Witness ==
    /\ Len(sending) = 1
    /\ submitBtn = BtnSending
    /\ modalActive
    /\ value = defaultValue
    /\ sending[1].name = << "J", "o" >>

\* a step of handleSubmit that passes validation
ValidSubmitStep ==
    /\ sendPromise' = "pending" /\ Len(sending') = Len(sending) + 1
    /\ \E clock \in ClockReadings : handleSubmit(clock)

\* C18 as first stated: in the step in which a submission passes
\* validation the record is put in front of the stored collection.
C18_PersistedAtSubmit ==
    [][ ValidSubmitStep =>
          getMessagesFromStorage(contactMessages').val =
              << sending'[Len(sending')] >>
                  \o getMessagesFromStorage(contactMessages).val ]_vars

\* C18 as amended: the step in which a submission passes validation builds
\* the record from the trimmed field values and leaves the stored item
\* alone; the stored item changes only in the step of an acknowledged send,
\* which puts the record built at submission in front.
C18_PersistedAtAcknowledgment ==
    [][ /\ ValidSubmitStep =>
              /\ contactMessages' = contactMessages
              /\ \E clock \in ClockReadings :
                    sending' = Append(sending, collectFormData(value, clock))
        /\ contactMessages' # contactMessages =>
              \E i \in 1..Len(sending) :
                  /\ SendAcknowledged(i)
                  /\ contactMessages' =
                        JSONstringify(<< sending[i] >> \o contactMessages.val)
      ]_vars

\* a record is outstanding and not stored; another one, sent before, is
C18_Witness ==
    /\ Len(sending) = 1
    /\ Len(contactMessages.val) = 1
    /\ sendPromise = "pending"
    /\ sending[1].id = 1 /\ contactMessages.val[1].id = 0

\* C20: the submit button is disabled with the label 'Sending...' exactly
\* while a send is outstanding, and enabled with 'Send Message' otherwise.
C20_ButtonTracksSend ==
    /\ sending # <<>> => submitBtn = BtnSending
    /\ sending = <<>> => submitBtn = BtnNormal
    /\ sending # <<>> <=> sendPromise = "pending"

\* the button is enabled again after a success and after a failure
C20_Witness ==
    /\ sending = <<>>
    /\ submitBtn = BtnNormal
    /\ sendPromise = "rejected"
    /\ formStatus = StatusFailed
    /\ Len(contactMessages.val) = 1

(***************************************************************************)
(* Properties of the theme, under SpecPage.                                *)
(***************************************************************************)
\* C19: initializeTheme applies dark mode iff the stored theme is "dark", or
\* none is stored and the OS prefers dark.
C19_SavedThemeFirst ==
    [][ initializeTheme =>
          ( darkMode' <=> \/ themeItem = "dark"
                          \/ (themeItem = "absent" /\ prefersDark) ) ]_vars

\* a stored "light" has won over an OS that prefers dark
C19_Witness ==
    /\ themeLoaded
    /\ themeItem = "light"
    /\ prefersDark
    /\ ~darkMode


(***************************************************************************)
(* The handlers of the send, checked under Spec.                           *)
(***************************************************************************)
\* the four template parameters of a record
SentParams(m) == << m.name, m.email, m.subject, m.message >>

\* C21: the failure handler leaves the field values and the stored
\* collection as they were, so that a resubmission of the values that were
\* sent passes validateForm and sends the same four parameters; the success
\* handler resets the form and removes the error and the valid indicator of
\* every field.
C21_FailedSendRetryable ==
    [][ \A i \in 1..Len(sending) :
          /\ ( sendPromise' = "rejected" /\ SendRejected(i) ) =>
                /\ value' = value
                /\ contactMessages' = contactMessages
                /\ SentParams(collectFormData(value, now)) = SentParams(sending[i])
                     => /\ validateForm([ classList |-> classList',
                                          spanText |-> spanText',
                                          spanVisible |-> spanVisible',
                                          clearTimers |-> clearTimers' ],
                                        focused', value').ret
                        /\ SentParams(collectFormData(value', now'))
                              = SentParams(sending[i])
          /\ ( sendPromise' = "fulfilled" /\ SendAcknowledged(i) ) =>
                /\ value' = defaultValue
                /\ \A f \in FieldIds :
                      classList'[f] \cap {"error", "valid"} = {}
      ]_vars



\* C22: once the theme is initialized, the stored theme, when present, is
\* "dark" or "light" and is "dark" iff the body carries 'dark-mode'; every
\* toggleTheme call flips the class, so that two calls in a row restore it.
C22_StoredThemeMatchesClass ==
    /\ [] ( themeLoaded =>
              /\ themeItem \in { "absent", "dark", "light" }
              /\ themeItem # "absent" => ( themeItem = "dark" <=> darkMode ) )
    /\ [][ toggleTheme => darkMode' = ~darkMode ]_vars

\* the user has toggled to dark on an OS that prefers dark
C22_Witness ==
    /\ themeLoaded
    /\ themeItem = "dark"
    /\ darkMode
    /\ prefersDark

\* C23: an OS change event never alters the stored theme; it sets the class
\* to the OS preference while no theme is stored and leaves the class alone
\* once one is stored; a stored theme is never removed.
C23_OSChangeOnlyWithoutStoredTheme ==
    /\ [][ \A matches \in BOOLEAN :
             ( prefersDark' = matches /\ osThemeChange(matches) ) =>
                /\ themeItem' = themeItem
                /\ IF themeItem = "absent"
                   THEN darkMode' = matches
                   ELSE darkMode' = darkMode ]_vars
    /\ [][ themeItem # "absent" => themeItem' # "absent" ]_vars

\* a stored "dark" has outlived an OS that prefers light
C23_Witness ==
    /\ themeLoaded
    /\ themeItem = "dark"
    /\ darkMode
    /\ ~prefersDark


(***************************************************************************)
(* The banner and the modal around a send, under Spec.                     *)
(***************************************************************************)
\* C24: a send that was acknowledged never ends with the failure banner,
\* also when the store append of the success handler throws; the failure
\* banner is set only by the resolution of a send.
C24_FailureBannerOnlyOnRejection ==
    [][ /\ \A i \in 1..Len(sending) :
              ( sendPromise' = "fulfilled" /\ SendAcknowledged(i) )
                 => formStatus' # StatusFailed
        /\ ( formStatus' = StatusFailed /\ formStatus # StatusFailed )
              => sendPromise' = "rejected" ]_vars

\* C25: whenever the contact modal is not active, the banner is empty and
\* the form is reset.
C25_ClosedModalIsClean ==
    ~modalActive => ( formStatus = StatusEmpty /\ value = defaultValue )

\* C26: the 2500 ms timer of a successful send leaves the modal, the field
\* values and the banner alone when the modal is no longer as that send left
\* it: the user has typed new values, has closed and reopened the modal, or
\* has started another submission.
C26_TimerOnlyClosesItsSession ==
    [][ ( /\ closeTimers' = closeTimers - 1
          /\ AutoCloseTimer
          /\ modalActive
          /\ \/ value # defaultValue
             \/ formStatus # StatusSuccess
             \/ sending # <<>> )
        => ( /\ modalActive' = modalActive
             /\ value' = value
             /\ formStatus' = formStatus ) ]_vars


\* the four fields of the record m are trimmed and pass validateField
RecordValid(m) ==
    /\ trim(m.name) = m.name       /\ validateField("senderName", m.name).isValid
    /\ trim(m.email) = m.email     /\ validateField("senderEmail", m.email).isValid
    /\ trim(m.subject) = m.subject /\ validateField("subject", m.subject).isValid
    /\ trim(m.message) = m.message /\ validateField("message", m.message).isValid

\* C27: the store starts without records, and every step that changes it
\* leaves it with records whose four fields are trimmed and valid, as are
\* the records a deletion would then leave in it.
C27_StoredRecordsValid ==
    /\ contactMessages.val = <<>>
    /\ [][ contactMessages' # contactMessages =>
             /\ \A k \in 1..Len(contactMessages'.val) :
                   RecordValid(contactMessages'.val[k])
             /\ \A messageId \in MessageIds :
                   LET left == filterOutId(contactMessages'.val, messageId)
                   IN  \A k \in 1..Len(left) : RecordValid(left[k]) ]_vars

\* two submissions of padded values have been stored
C27_Witness ==
    /\ Len(contactMessages.val) = 2
    /\ sending = <<>>
    /\ modalActive
    /\ value["senderName"] # trim(value["senderName"])


(***************************************************************************)
(* The two modals and the scroll lock, under SpecPage.                     *)
(***************************************************************************)
\* C28: the body overflow is 'hidden' exactly while the contact modal or
\* the messages modal is active.
C28_ScrollLockedIffModalOpen ==
    ( bodyOverflow = "hidden" ) <=> ( modalActive \/ messagesModalActive )


(***************************************************************************)
(* Real-time validation, under Spec.                                       *)
(***************************************************************************)
\* C29: a blur of a field whose trimmed value is empty leaves its error and
\* valid indicators unchanged; a blur of a field with a non-empty trimmed
\* value leaves it with the error indicator iff validateField fails; an
\* input event never sets an error indicator, and removes one only when the
\* new value is valid.
C29_RealtimeNeverFlagsEmpty ==
    [][ /\ ( /\ focused' # focused /\ focused \in FieldIds
               /\ value' = value /\ sending' = sending
               /\ MoveFocus(focused') )
                 => LET f == focused
                    IN  IF trim(value[f]) = <<>>
                        THEN /\ classList'[f] = classList[f]
                             /\ spanText'[f] = spanText[f]
                             /\ spanVisible'[f] = spanVisible[f]
                        ELSE "error" \in classList'[f]
                                <=> ~validateField(f, value[f]).isValid
        /\ \A f \in FieldIds :
              ( /\ value'[f] # value[f] /\ focused = f /\ modalActive'
                /\ sending' = sending
                /\ TypeInto(f, value'[f]) )
                 => /\ "error" \in classList'[f] => "error" \in classList[f]
                    /\ ( "error" \in classList[f] /\ "error" \notin classList'[f] )
                          => validateField(f, value'[f]).isValid
      ]_vars

\* the name was left empty without a mark while a short message is flagged
C29_Witness ==
    /\ modalActive
    /\ sendPromise = "none"
    /\ formStatus = StatusEmpty
    /\ focused = "other"
    /\ value["senderName"] = <<>>
    /\ classList["senderName"] = {}
    /\ value["message"] = <<"s", "h", "o", "r", "t">>
    /\ "error" \in classList["message"]


(***************************************************************************)
(* The experience timeline, under SpecPage.                                *)
(***************************************************************************)
\* C30: at most one timeline nav item carries 'active'; it is item 0 until
\* a card has entered the detection zone and then the item whose data-index
\* is that of the card that entered most recently; a notification without
\* an entering card changes nothing.
C30_ActiveNavFollowsLatestCard ==
    /\ Cardinality(navActive) <= 1
    /\ navActive = IF lastEntered = -1 THEN {0} ELSE {lastEntered}
    /\ \A entries \in Notifications :
          ( \A c \in ExpCards : entries[c] # "entering" ) =>
             LET st == [ currentActiveIndex |-> currentActiveIndex,
                         navActive |-> navActive ]
             IN  observerCallback(st, lastEntered, entries, 0)
                    = [ st |-> st, lastEntered |-> lastEntered ]

\* card 1 is the latest to have entered the zone
C30_Witness ==
    /\ lastEntered = 1
    /\ navActive = {1}
    /\ currentActiveIndex = 1

=============================================================================
